---- MODULE Spec2Model ----
\* DMXEnttecPro: the Controller of src/DMXEnttecPro/controller.py as a state
\* machine. One step is one public call on a constructed Controller; the bytes
\* handed to the serial connection and the exception the call raised are
\* recorded in `op`.
EXTENDS Integers, Sequences, FiniteSets, TLC

VARIABLES
    dmx_size,                 \* self.dmx_size
    auto_submit,              \* self.auto_submit
    dynamic_submit,           \* self.dynamic_submit
    channels,                 \* self.channels (bytearray, slot k at index k)
    last_submitted_channels,  \* self._last_submitted_channels
    aliased,                  \* the two attributes name the same bytearray object
    device,                   \* the widget's DMX slots
    conn,                     \* self._conn: "unopened" until serial.Serial(...) returns
    op                        \* the last public call and what it did

vars == <<dmx_size, auto_submit, dynamic_submit, channels,
          last_submitted_channels, aliased, device, conn, op>>

config == <<dmx_size, auto_submit, dynamic_submit, conn>>

----------------------------------------------------------------------------
\* Bounds and program constants

\* Largest universe size the model constructs (the program allows up to 512).
MaxSize == 26

\* Smallest universe size __init__ accepts.
DMX_MIN == 24

\* Largest universe size __init__ accepts.
DMX_MAX == 512

\* How far on either side of DMX_MIN and DMX_MAX the constructor is tried.
CtorSpan == 4

\* Slices of at most this many channels are promoted to channels[:24].
PROMOTE == 24

SIGNAL_START == 126   \* 0x7E
SIGNAL_END == 231     \* 0xE7
LABEL_SEND_DMX == 6
LABEL_SET_PARAMS == 4
UDB_MAX == 512

\* Universe sizes constructed: the smallest legal one and a larger one.
Sizes == {DMX_MIN, MaxSize}

\* Values passed to the mutators: both ends of a byte and one past the top.
Values == {0, 255, 256}

\* Channel numbers passed to set_channel for a universe of n: below, at and
\* above the legal range, and the first slot past the promoted prefix.
Channels(n) == {0, 1, PROMOTE + 1, n, n + 1}

\* Channel numbers passed to get_channel for a universe of n.
ReadChannels(n) == {0 - n, 0 - 1, 0, 1, PROMOTE + 1, n, n + 1}

\* Outcomes of self._conn.write when the call reaches it: it returns (TRUE) or
\* raises. A call that never reaches a write has nothing to draw.
WriteOutcomes(reached) == IF reached THEN BOOLEAN ELSE {TRUE}

SubmitAfter == {"None", "True", "False"}

----------------------------------------------------------------------------
\* bytearray helpers

\* bytearray(n): n zero bytes.
Zeros(n) == [k \in 1..n |-> 0]

\* A fill that stops one slot short of the end.
FilledButLast(value, n) == [k \in 1..n |-> IF k = n THEN 0 ELSE value]

\* bytearray([value] * n)
Filled(value, n) == [k \in 1..n |-> value]

\* b[:n]
Prefix(b, n) == SubSeq(b, 1, n)

\* A byte check without the upper end.
IsByteNoTop(v) == v >= 0

IsByte(v) == v >= 0 /\ v <= 255

\* Python sequence indexing b[idx] on a sequence of length n: the 1-based slot
\* addressed, or 0 when the index is out of range (IndexError). Negative
\* indices count from the end.
PyIndex(idx, n) ==
    IF idx >= 0
    THEN (IF idx < n THEN idx + 1 ELSE 0)
    ELSE (IF idx + n >= 0 THEN idx + n + 1 ELSE 0)

\* x & 0xFF
LowByte(x) == x % 256

\* (x >> 8) & 0xFF
HighByte(x) == (x \div 256) % 256

----------------------------------------------------------------------------
\* Controller.__init__

\* A size check that leaves out the lower end.
SizeOkExclusive(n) == DMX_MIN < n /\ n <= DMX_MAX

\* 24 <= dmx_size <= 512
SizeOk(n) == DMX_MIN <= n /\ n <= DMX_MAX

\* A constructor that binds both attributes to one bytearray.
InitSharesOneBuffer == TRUE

\* self.channels and self._last_submitted_channels are built by two separate
\* bytearray(self.dmx_size) calls: they share no storage.
InitShares == FALSE

\* Sizes the constructor is called with: around both ends of the legal range.
CtorSizes ==
    ((DMX_MIN - CtorSpan)..(DMX_MIN + CtorSpan)) \cup
    ((DMX_MAX - CtorSpan)..(DMX_MAX + CtorSpan))

\* No Controller yet: nothing is bound and no connection is open.
InitNew ==
    /\ dmx_size = 0
    /\ auto_submit = FALSE
    /\ dynamic_submit = FALSE
    /\ channels = <<>>
    /\ last_submitted_channels = <<>>
    /\ aliased = FALSE
    /\ device = <<>>
    /\ conn = "unopened"
    /\ op = [name |-> "new", args |-> <<>>, raised |-> "none",
             written |-> <<>>, writes |-> 0, submits |-> 0,
             minimal |-> <<>>, ret |-> <<>>]

\* Controller(port_string, dmx_size=n, auto_submit=auto, dynamic_submit=dyn):
\* the size check comes before serial.Serial is called.
Construct(n, auto, dyn) ==
    /\ op.name = "new"
    /\ LET args == [dmx_size |-> n, auto_submit |-> auto,
                    dynamic_submit |-> dyn]
       IN  IF SizeOk(n)
           THEN /\ dmx_size' = n
                /\ auto_submit' = auto
                /\ dynamic_submit' = dyn
                /\ conn' = "open"
                /\ channels' = Zeros(n)
                /\ last_submitted_channels' = Zeros(n)
                /\ aliased' = InitShares
                /\ device' = Zeros(n)
                /\ op' = [name |-> "__init__", args |-> args,
                          raised |-> "none", written |-> <<>>, writes |-> 0,
                          submits |-> 0, minimal |-> <<>>, ret |-> <<>>]
           ELSE /\ op' = [name |-> "__init__", args |-> args,
                          raised |-> "ValueError", written |-> <<>>,
                          writes |-> 0, submits |-> 0, minimal |-> <<>>,
                          ret |-> <<>>]
                /\ UNCHANGED <<config, channels, last_submitted_channels,
                               aliased, device>>

----------------------------------------------------------------------------
\* Controller._get_minimal_submission

RECURSIVE ReverseScan(_, _, _, _)
\* The loop at reverse offset i: the first mismatch from the back returns
\* channels[:dmx_size - i]; no mismatch returns bytearray().
ReverseScan(ch, last, n, i) ==
    IF i >= n THEN <<>>
    ELSE IF ch[n - i] # last[n - i] THEN Prefix(ch, n - i)
    ELSE ReverseScan(ch, last, n, i + 1)

RECURSIVE ReverseScanShort(_, _, _, _)
ReverseScanShort(ch, last, n, i) ==
    IF i >= n THEN <<>>
    ELSE IF ch[n - i] # last[n - i] THEN Prefix(ch, n - i - 1)
    ELSE ReverseScanShort(ch, last, n, i + 1)

\* A scan whose slice stops one slot short of the last difference.
GetMinimalSubmissionShort(ch, last, n) == ReverseScanShort(ch, last, n, 0)

GetMinimalSubmission(ch, last, n) == ReverseScan(ch, last, n, 0)

----------------------------------------------------------------------------
\* Controller.submit

\* A submit that returns early on equal buffers whatever the mode.
SubmitSkippedAnyMode(ch, last, n, dyn) ==
    Len(GetMinimalSubmission(ch, last, n)) = 0

\* A submit without the early return.
SubmitSkippedNever(ch, last, n, dyn) == FALSE

\* A submit that skips on any slice of at most PROMOTE channels.
SubmitSkippedEager(ch, last, n, dyn) ==
    dyn /\ Len(GetMinimalSubmission(ch, last, n)) <= PROMOTE

\* submit returns before building a message.
SubmitSkipped(ch, last, n, dyn) ==
    dyn /\ Len(GetMinimalSubmission(ch, last, n)) = 0

\* The local `channels` of submit when it does not return early.
SubmitChannels(ch, last, n, dyn) ==
    IF dyn
    THEN LET m == GetMinimalSubmission(ch, last, n)
         IN  IF Len(m) <= PROMOTE THEN Prefix(ch, PROMOTE) ELSE m
    ELSE ch

\* The message of submit: the length is taken from the slice, the bytes after
\* the reserved 0 are self.channels.
SendDmxMsg(slice, ch) ==
    <<SIGNAL_START, LABEL_SEND_DMX, LowByte(Len(slice) + 1),
      HighByte(Len(slice) + 1), 0>> \o ch \o <<SIGNAL_END>>

\* A snapshot taken whether or not the write went through.
SubmitSnapshotOptimistic(ch, last, wrote) == ch

\* self._last_submitted_channels after self._conn.write(msg): the assignment
\* is reached only when write returned.
SubmitSnapshot(ch, last, wrote) == IF wrote THEN ch ELSE last

\* A snapshot that is plain assignment of self.channels.
SnapshotSharesNoCopy == TRUE

\* self.channels.copy() is a new bytearray: the snapshot shares no storage.
SnapshotShares == FALSE

\* The widget on a message: a send-DMX message overwrites the first
\* (length - 1) slots with the bytes after the reserved byte.
DeviceReceive(dev, msg) ==
    IF msg[2] = LABEL_SEND_DMX
    THEN LET count == msg[3] + 256 * msg[4] - 1
         IN  [k \in 1..Len(dev) |-> IF k <= count THEN msg[5 + k] ELSE dev[k]]
    ELSE dev

\* What submit's call of _get_minimal_submission returned: <<result>>, or <<>>
\* when dynamic_submit is off and the call is not made.
MinimalCall(ch, last, n, dyn) ==
    IF dyn THEN <<GetMinimalSubmission(ch, last, n)>> ELSE <<>>

\* submit() on buffers ch/last; ok is whether self._conn.write returns.
SubmitEffect(ch, last, al, dev, n, dyn, ok) ==
    IF SubmitSkipped(ch, last, n, dyn)
    THEN [written |-> <<>>, writes |-> 0, raised |-> "none",
          last |-> last, aliased |-> al, device |-> dev,
          minimal |-> MinimalCall(ch, last, n, dyn)]
    ELSE LET msg == SendDmxMsg(SubmitChannels(ch, last, n, dyn), ch)
         IN  [minimal |-> MinimalCall(ch, last, n, dyn),
              written |-> IF ok THEN <<msg>> ELSE <<>>,
              writes  |-> 1,
              raised  |-> IF ok THEN "none" ELSE "SerialException",
              last    |-> SubmitSnapshot(ch, last, ok),
              aliased |-> IF ok THEN SnapshotShares ELSE al,
              device  |-> IF ok THEN DeviceReceive(dev, msg) ELSE dev]

Submit ==
    \E ok \in WriteOutcomes(~SubmitSkipped(channels, last_submitted_channels,
                                            dmx_size, dynamic_submit)) :
        \E r \in {SubmitEffect(channels, last_submitted_channels, aliased,
                              device, dmx_size, dynamic_submit, ok)} :
            /\ last_submitted_channels' = r.last
            /\ aliased' = r.aliased
            /\ device' = r.device
            /\ op' = [name |-> "submit", args |-> <<>>, raised |-> r.raised,
                      written |-> r.written, writes |-> r.writes,
                      submits |-> 1, minimal |-> r.minimal, ret |-> <<>>]
            /\ UNCHANGED <<config, channels>>

----------------------------------------------------------------------------
\* Controller._auto_submit

\* A wrapper in which a set auto_submit cannot be overridden.
ShouldSubmitAutoWins(submit_after, auto) == auto \/ submit_after = "True"

\* A wrapper that submits only on an explicit submit_after=True.
ShouldSubmitExplicitOnly(submit_after, auto) == submit_after = "True"

\* The wrapper's decision: submit_after, when given, takes precedence over
\* self.auto_submit.
ShouldSubmit(submit_after, auto) ==
    IF submit_after = "None" THEN auto ELSE submit_after = "True"

NoSubmit(last, al, dev) ==
    [written |-> <<>>, writes |-> 0, raised |-> "none",
     last |-> last, aliased |-> al, device |-> dev, minimal |-> <<>>]

\* wrapper(self, *args, submit_after): f has already produced the buffer `ch`
\* (rebound to a new object when `rebinds`, changed in place otherwise), then
\* submit() runs when the policy says so.
Wrapper(name, args, ch, rebinds, submit_after, ok) ==
    LET al1   == aliased /\ ~rebinds
        last1 == IF al1 THEN ch ELSE last_submitted_channels
        sub   == ShouldSubmit(submit_after, auto_submit)
    IN \E r \in {IF sub
                 THEN SubmitEffect(ch, last1, al1, device, dmx_size,
                                   dynamic_submit, ok)
                 ELSE NoSubmit(last1, al1, device)} :
        /\ channels' = ch
        /\ last_submitted_channels' = r.last
        /\ aliased' = r.aliased
        /\ device' = r.device
        /\ op' = [name |-> name, args |-> args, raised |-> r.raised,
                  written |-> r.written, writes |-> r.writes,
                  submits |-> IF sub THEN 1 ELSE 0, minimal |-> r.minimal,
                  ret |-> <<>>]
        /\ UNCHANGED config

\* f raised inside the wrapper: the exception leaves before any submit.
Raises(name, args, err) ==
    /\ op' = [name |-> name, args |-> args, raised |-> err,
              written |-> <<>>, writes |-> 0, submits |-> 0,
              minimal |-> <<>>, ret |-> <<>>]
    /\ UNCHANGED <<config, channels, last_submitted_channels, aliased, device>>

----------------------------------------------------------------------------
\* The mutators

ClearChannels ==
    \E sa \in SubmitAfter :
      \E ok \in WriteOutcomes(ShouldSubmit(sa, auto_submit)) :
        Wrapper("clear_channels", [submit_after |-> sa],
                Zeros(dmx_size), TRUE, sa, ok)

AllChannelsOn ==
    \E sa \in SubmitAfter :
      \E ok \in WriteOutcomes(ShouldSubmit(sa, auto_submit)) :
        Wrapper("all_channels_on", [submit_after |-> sa],
                Filled(255, dmx_size), TRUE, sa, ok)

\* bytearray([value] * self.dmx_size) raises ValueError on a non-byte.
SetAllChannels ==
    \E value \in Values, sa \in SubmitAfter :
        LET args == [value |-> value, submit_after |-> sa]
        IN  IF IsByte(value)
            THEN \E ok \in WriteOutcomes(ShouldSubmit(sa, auto_submit)) :
                    Wrapper("set_all_channels", args,
                            Filled(value, dmx_size), TRUE, sa, ok)
            ELSE Raises("set_all_channels", args, "ValueError")

\* The slot self.channels[channel-1] addresses, 0 when it raises IndexError.
SlotOf(channel, n) == PyIndex(channel - 1, n)

\* The exceptions self.channels[channel-1] = value can raise. When both the
\* index and the value are bad, which check comes first depends on the
\* interpreter version.
SetChannelErrors(channel, value, n) ==
    (IF SlotOf(channel, n) = 0 THEN {"IndexError"} ELSE {}) \cup
    (IF IsByte(value) THEN {} ELSE {"ValueError"})

\* An item assignment that lands one slot further on.
StoreShifted(ch, slot, value) ==
    [ch EXCEPT ![IF slot < Len(ch) THEN slot + 1 ELSE slot] = value]

\* self.channels[channel-1] = value, in place.
Store(ch, slot, value) == [ch EXCEPT ![slot] = value]

SetChannel ==
    \E channel \in Channels(dmx_size), value \in Values, sa \in SubmitAfter :
        LET args == [channel |-> channel, value |-> value, submit_after |-> sa]
            errs == SetChannelErrors(channel, value, dmx_size)
        IN  IF errs = {}
            THEN \E ok \in WriteOutcomes(ShouldSubmit(sa, auto_submit)) :
                    Wrapper("set_channel", args,
                            Store(channels, SlotOf(channel, dmx_size), value),
                            FALSE, sa, ok)
            ELSE \E err \in errs : Raises("set_channel", args, err)

\* get_channel is not wrapped: a read, never a submit.
GetChannel ==
    \E channel \in ReadChannels(dmx_size) :
        LET slot == SlotOf(channel, dmx_size)
        IN  /\ op' = [name |-> "get_channel", args |-> [channel |-> channel],
                      raised |-> IF slot = 0 THEN "IndexError" ELSE "none",
                      written |-> <<>>, writes |-> 0, submits |-> 0,
                      minimal |-> <<>>,
                      ret |-> IF slot = 0 THEN <<>> ELSE <<channels[slot]>>]
            /\ UNCHANGED <<config, channels, last_submitted_channels,
                           aliased, device>>

----------------------------------------------------------------------------
\* Controller.set_dmx_parameters

\* A range check that leaves out the lower end.
BreakTimeOkExclusive(output_break_time) ==
    9 < output_break_time /\ output_break_time <= 127

BreakTimeOk(output_break_time) ==
    9 <= output_break_time /\ output_break_time <= 127

MabTimeOk(mab_time) == 1 <= mab_time /\ mab_time <= 127

OutputRateOk(output_rate) == 0 <= output_rate /\ output_rate <= 40

\* user_defined_bytes: None becomes bytearray(); a given block longer than
\* 512 is refused.
UdbOk(given, udb) == ~given \/ ~(Len(udb) > UDB_MAX)

\* The checks in the order the code makes them: "none" when all pass.
ParamsError(p) ==
    IF ~UdbOk(p.udb_given, p.user_defined_bytes) THEN "ValueError"
    ELSE IF ~BreakTimeOk(p.output_break_time) THEN "ValueError"
    ELSE IF ~MabTimeOk(p.mab_time) THEN "ValueError"
    ELSE IF ~OutputRateOk(p.output_rate) THEN "ValueError"
    ELSE "none"

\* A parameters message sent under the send-DMX label.
SetParamsMsgAsDmx(p) ==
    <<SIGNAL_START, LABEL_SEND_DMX,
      LowByte(Len(p.user_defined_bytes) + 1),
      HighByte(Len(p.user_defined_bytes) + 1),
      p.output_break_time, p.mab_time, p.output_rate>>
    \o p.user_defined_bytes \o <<SIGNAL_END>>

\* The message of set_dmx_parameters.
SetParamsMsg(p) ==
    <<SIGNAL_START, LABEL_SET_PARAMS,
      LowByte(Len(p.user_defined_bytes) + 1),
      HighByte(Len(p.user_defined_bytes) + 1),
      p.output_break_time, p.mab_time, p.output_rate>>
    \o p.user_defined_bytes \o <<SIGNAL_END>>

\* A user-defined block of n bytes.
Udb(n) == [k \in 1..n |-> k % 256]

Params(b, m, r, given, n) ==
    [output_break_time |-> b, mab_time |-> m, output_rate |-> r,
     udb_given |-> given, user_defined_bytes |-> Udb(n)]

\* The defaults of set_dmx_parameters.
DefaultParams == Params(9, 1, 40, FALSE, 0)

\* Parameter sets around every boundary the checks have.
BoundaryParams ==
    {Params(b, m, r, TRUE, n) :
        b \in {8, 9, 127, 128}, m \in {0, 1, 127, 128},
        r \in {0 - 1, 0, 40, 41}, n \in {0, 1, 255, UDB_MAX, UDB_MAX + 1}}
    \cup {DefaultParams}

\* The few parameter sets the calls interleaved with channel operations use.
FewParams ==
    {DefaultParams, Params(8, 1, 40, FALSE, 0), Params(127, 127, 0, TRUE, 1)}

SetDmxParameters(p) ==
    LET err == ParamsError(p)
    IN  /\ \E ok \in WriteOutcomes(err = "none") :
            op' = [name |-> "set_dmx_parameters", args |-> p,
                   raised |-> IF err # "none" THEN err
                              ELSE IF ok THEN "none" ELSE "SerialException",
                   written |-> IF err = "none" /\ ok
                               THEN <<SetParamsMsg(p)>> ELSE <<>>,
                   writes |-> IF err = "none" THEN 1 ELSE 0,
                   submits |-> 0, minimal |-> <<>>, ret |-> <<>>]
        /\ device' = IF op'.written = <<>> THEN device
                     ELSE DeviceReceive(device, op'.written[1])
        /\ UNCHANGED <<config, channels, last_submitted_channels, aliased>>

----------------------------------------------------------------------------
\* controllers/mk2.py: Mk2Controller

LABEL_SET_PARAMS_PORT1 == 4
LABEL_SET_PARAMS_PORT2 == 156

\* The functions DMXEnttecPro/utils.py defines.
UtilsNames ==
    {"get_port_by_serial_number", "get_port_by_product_id",
     "show_port_details"}

\* The names mk2.py imports from DMXEnttecPro.utils when it is loaded.
Mk2Imports ==
    {"least_significant_bit_for_size", "most_significant_bit_for_size"}

\* Loading mk2.py: `from DMXEnttecPro.utils import (...)` raises ImportError
\* when utils does not define an imported name.
Mk2ImportError ==
    IF Mk2Imports \subseteq UtilsNames THEN "none" ELSE "ImportError"

\* The two helpers mk2.py expects from utils, as their names and the
\* description of the length fields say: the low and the high byte of a size.
LeastSignificantBitForSize(size) == size % 256
MostSignificantBitForSize(size) == (size \div 256) % 256

\* The checks of set_port_widget_parameters in the order the code makes them;
\* the ranges are those of set_dmx_parameters.
Mk2ParamsError(port, p) ==
    IF ~UdbOk(p.udb_given, p.user_defined_bytes) THEN "ValueError"
    ELSE IF ~(port \in {1, 2}) THEN "ValueError"
    ELSE IF ~BreakTimeOk(p.output_break_time) THEN "ValueError"
    ELSE IF ~MabTimeOk(p.mab_time) THEN "ValueError"
    ELSE IF ~OutputRateOk(p.output_rate) THEN "ValueError"
    ELSE "none"

\* The message of set_port_widget_parameters.
Mk2SetParamsMsg(port, p) ==
    LET udb_len == Len(p.user_defined_bytes)
    IN  <<SIGNAL_START,
          IF port = 2 THEN LABEL_SET_PARAMS_PORT2 ELSE LABEL_SET_PARAMS_PORT1,
          LeastSignificantBitForSize(udb_len + 5),
          MostSignificantBitForSize(udb_len + 5),
          LeastSignificantBitForSize(udb_len),
          MostSignificantBitForSize(udb_len),
          p.output_break_time, p.mab_time, p.output_rate>>
        \o p.user_defined_bytes \o <<SIGNAL_END>>

Mk2Ports == {0, 1, 2, 3}

\* What a call on Mk2Controller leaves in `op` when it raised before any
\* write.
Mk2Raised(name, args, err) ==
    /\ op' = [name |-> name, args |-> args, raised |-> err,
              written |-> <<>>, writes |-> 0, submits |-> 0,
              minimal |-> <<>>, ret |-> <<>>]
    /\ UNCHANGED <<config, channels, last_submitted_channels, aliased, device>>

\* A program that loads mk2.py and builds Mk2Controller(port_string,
\* dmx_size=n, auto_submit=auto). Loading the module comes first.
Mk2Construct(n, auto) ==
    /\ op.name = "new"
    /\ LET args == [dmx_size |-> n, auto_submit |-> auto]
       IN  IF Mk2ImportError # "none"
           THEN Mk2Raised("Mk2Controller.__init__", args, Mk2ImportError)
           ELSE IF ~SizeOk(n)
           THEN Mk2Raised("Mk2Controller.__init__", args, "ValueError")
           ELSE /\ dmx_size' = n
                /\ auto_submit' = auto
                /\ dynamic_submit' = FALSE
                /\ conn' = "open"
                /\ channels' = Zeros(n)
                /\ last_submitted_channels' = Zeros(n)
                /\ aliased' = FALSE
                /\ device' = Zeros(n)
                /\ op' = [name |-> "Mk2Controller.__init__", args |-> args,
                          raised |-> "none", written |-> <<>>, writes |-> 0,
                          submits |-> 0, minimal |-> <<>>, ret |-> <<>>]

\* A program that loads mk2.py, builds a Mk2Controller of the default size
\* and calls set_port_widget_parameters(port=port, ...p).
Mk2SetPortWidgetParameters(port, p) ==
    /\ op.name = "new"
    /\ LET name == "set_port_widget_parameters"
           args == [port |-> port, params |-> p]
           err  == Mk2ParamsError(port, p)
       IN  IF Mk2ImportError # "none"
           THEN Mk2Raised(name, args, Mk2ImportError)
           ELSE IF err # "none"
           THEN /\ op' = [name |-> name, args |-> args, raised |-> err,
                          written |-> <<>>, writes |-> 0, submits |-> 0,
                          minimal |-> <<>>, ret |-> <<>>]
                /\ dmx_size' = DMX_MAX
                /\ conn' = "open"
                /\ channels' = Zeros(DMX_MAX)
                /\ last_submitted_channels' = Zeros(DMX_MAX)
                /\ device' = Zeros(DMX_MAX)
                /\ UNCHANGED <<auto_submit, dynamic_submit, aliased>>
           ELSE \E ok \in BOOLEAN :
                /\ op' = [name |-> name, args |-> args,
                          raised |-> IF ok THEN "none" ELSE "SerialException",
                          written |-> IF ok THEN <<Mk2SetParamsMsg(port, p)>>
                                      ELSE <<>>,
                          writes |-> 1, submits |-> 0,
                          minimal |-> <<>>, ret |-> <<>>]
                /\ dmx_size' = DMX_MAX
                /\ conn' = "open"
                /\ channels' = Zeros(DMX_MAX)
                /\ last_submitted_channels' = Zeros(DMX_MAX)
                /\ device' = Zeros(DMX_MAX)
                /\ UNCHANGED <<auto_submit, dynamic_submit, aliased>>

----------------------------------------------------------------------------

Init ==
    /\ dmx_size \in Sizes
    /\ auto_submit \in BOOLEAN
    /\ dynamic_submit \in BOOLEAN
    /\ channels = Zeros(dmx_size)
    /\ last_submitted_channels = Zeros(dmx_size)
    /\ aliased = InitShares
    /\ device = Zeros(dmx_size)
    /\ conn = "open"
    /\ op = [name |-> "__init__", args |-> <<>>, raised |-> "none",
             written |-> <<>>, writes |-> 0, submits |-> 0,
             minimal |-> <<>>, ret |-> <<>>]

Next ==
    \/ Submit
    \/ ClearChannels
    \/ AllChannelsOn
    \/ SetAllChannels
    \/ SetChannel
    \/ GetChannel
    \/ \E p \in FewParams : SetDmxParameters(p)

Spec == Init /\ [][Next]_vars

\* set_dmx_parameters alone, over every boundary of its checks, on a newly
\* constructed Controller.
NextParams == \E p \in BoundaryParams : SetDmxParameters(p)

SpecParams == Init /\ [][NextParams]_vars

\* Construction, from the state in which no Controller exists yet.
NextNew ==
    \/ \E n \in CtorSizes, auto \in BOOLEAN, dyn \in BOOLEAN :
          Construct(n, auto, dyn)
    \/ \E n \in CtorSizes, auto \in BOOLEAN : Mk2Construct(n, auto)
    \/ \E port \in Mk2Ports, p \in FewParams :
          Mk2SetPortWidgetParameters(port, p)

SpecNew == InitNew /\ [][NextNew]_vars

\* A Controller built with auto_submit=True, whose mutators are called
\* without submit_after and whose writes all return.
InitAuto == Init /\ auto_submit

NextAuto ==
    /\ Next
    /\ op'.raised # "SerialException"
    /\ (op'.name \in {"set_channel", "set_all_channels", "all_channels_on",
                      "clear_channels"}
          => op'.args.submit_after = "None")

SpecAuto == InitAuto /\ [][NextAuto]_vars

----------------------------------------------------------------------------
\* Vocabulary of the properties

\* The largest 1-based slot at which a and b differ, 0 when they are equal.
LastDiff(a, b) ==
    LET D == {k \in 1..Len(a) : a[k] # b[k]}
    IN  IF D = {} THEN 0 ELSE CHOOSE k \in D : \A j \in D : j <= k

Max(a, b) == IF a >= b THEN a ELSE b

\* The 16-bit little-endian length field of a message.
LengthField(msg) == msg[3] + 256 * msg[4]

\* The channel bytes of a send-DMX message: what lies between the reserved
\* byte and the last byte.
ChannelBytes(msg) == SubSeq(msg, 6, Len(msg) - 1)

Mutators == {"set_channel", "set_all_channels", "all_channels_on",
             "clear_channels"}

\* The last call ran submit(), which wrote a message and returned.
SubmittedOK ==
    op.submits = 1 /\ op.writes = 1 /\ op.raised = "none" /\ op.written # <<>>

----------------------------------------------------------------------------
\* C1: with dynamic_submit on, a submit() whose buffers last differ at slot
\* L >= 1 writes, after the reserved byte, exactly the first max(L, 24) slots
\* of channels and nothing beyond them.
C1_SliceTransmitted ==
    [][(/\ op'.name = "submit"
        /\ dynamic_submit
        /\ LastDiff(channels, last_submitted_channels) >= 1
        /\ op'.written # <<>>)
       => ChannelBytes(op'.written[1]) =
            Prefix(channels,
                   Max(LastDiff(channels, last_submitted_channels), PROMOTE))]_vars

\* C2: every send-DMX message written has the form 0x7E, 6, length, body, 0xE7
\* with the length field equal to the number of bytes between the length
\* field and the end byte.
C2_LengthMatchesBody ==
    \A i \in 1..Len(op.written) :
        op.written[i][2] = LABEL_SEND_DMX =>
            /\ op.written[i][1] = SIGNAL_START
            /\ op.written[i][Len(op.written[i])] = SIGNAL_END
            /\ LengthField(op.written[i]) = Len(op.written[i]) - 5

\* C3: _get_minimal_submission returns the prefix of channels that ends at the
\* last slot where channels and the snapshot differ; it is empty exactly when
\* the two are equal.
C3_MinimalIsPrefixToLastDiff ==
    [][(op'.name = "submit" /\ dynamic_submit)
       => /\ op'.minimal =
               <<Prefix(channels, LastDiff(channels, last_submitted_channels))>>
          /\ Len(op'.minimal[1]) = LastDiff(channels, last_submitted_channels)
          /\ (op'.minimal[1] = <<>> <=> channels = last_submitted_channels)]_vars

\* C3 witness: a submit on a universe larger than the promoted prefix whose
\* minimal submission ends inside the universe, past the promoted prefix.
C3_Witness ==
    /\ op.name = "submit"
    /\ op.minimal # <<>>
    /\ Len(op.minimal[1]) = PROMOTE + 1
    /\ dmx_size > PROMOTE + 1

\* C4: with dynamic_submit on, when a call that ran submit() returns, the
\* device's slots equal channels.
C4_DeviceUpToDate ==
    (dynamic_submit /\ op.submits = 1 /\ op.raised = "none")
        => device = channels

\* C4 witness: a dynamic submit declared fewer channels than the universe has
\* while a slot beyond the declared ones is lit, and the device matches.
C4_Witness ==
    /\ dynamic_submit
    /\ SubmittedOK
    /\ LengthField(op.written[1]) - 1 < dmx_size
    /\ channels[dmx_size] = 255
    /\ channels[1] = 255
    /\ device = channels

\* C5: with dynamic_submit on, a submit() that finds channels equal to the
\* snapshot writes nothing and changes neither buffer.
C5_SkipWhenEqual ==
    [][(/\ dynamic_submit
        /\ op'.submits = 1
        /\ channels' = last_submitted_channels)
       => /\ op'.writes = 0
          /\ op'.written = <<>>
          /\ op'.raised = "none"
          /\ last_submitted_channels' = last_submitted_channels
          /\ (op'.name = "submit" => channels' = channels)]_vars

\* C5 witness: a skipped submit() after an earlier submit brought a lit
\* universe to the device.
C5_Witness ==
    /\ dynamic_submit
    /\ op.name = "submit"
    /\ op.writes = 0
    /\ channels = last_submitted_channels
    /\ channels # Zeros(dmx_size)

\* C6: after a submit() that wrote a message, the snapshot equals channels in
\* every slot, and a set_channel that follows without submitting leaves the
\* snapshot as it was.
C6_SnapshotIsFullCopy ==
    [][/\ (SubmittedOK' => last_submitted_channels' = channels')
       /\ (/\ SubmittedOK
           /\ op'.name = "set_channel"
           /\ op'.submits = 0)
          => last_submitted_channels' = last_submitted_channels]_vars

\* C6 witness: a set_channel without submit changed channels right after a
\* dynamic submit, and the snapshot still holds the submitted values.
C6_Witness ==
    /\ op.name = "set_channel"
    /\ op.submits = 0
    /\ op.raised = "none"
    /\ dynamic_submit
    /\ dmx_size > PROMOTE
    /\ last_submitted_channels = Filled(255, dmx_size)
    /\ channels # last_submitted_channels

\* C7: a failed transport write propagates after one write attempt and leaves
\* the snapshot as before the call; channels is as before the call for
\* submit() and set_dmx_parameters() and holds the mutation for a mutator;
\* the next dynamic submit() then writes again.
C7_FailedWriteKeepsState ==
    [][/\ (op'.raised = "SerialException"
           => /\ op'.writes = 1
              /\ op'.written = <<>>
              /\ last_submitted_channels' = last_submitted_channels
              /\ (op'.name \in {"submit", "set_dmx_parameters"}
                    => channels' = channels)
              /\ (op'.name = "set_channel"
                    => channels' = [channels EXCEPT
                                      ![SlotOf(op'.args.channel, dmx_size)] =
                                          op'.args.value])
              /\ (op'.name = "set_all_channels"
                    => channels' = Filled(op'.args.value, dmx_size))
              /\ (op'.name = "all_channels_on"
                    => channels' = Filled(255, dmx_size))
              /\ (op'.name = "clear_channels"
                    => channels' = Zeros(dmx_size)))
       /\ (/\ op.raised = "SerialException"
           /\ op.name \in Mutators
           /\ channels # last_submitted_channels
           /\ dynamic_submit
           /\ op'.name = "submit")
          => /\ op'.writes = 1
             /\ (op'.raised = "none"
                   => LengthField(op'.written[1]) - 1 >=
                        LastDiff(channels, last_submitted_channels))]_vars

\* C7 witness: an auto-submitted set_channel whose write failed; channels
\* holds the new value and the snapshot does not.
C7_Witness ==
    /\ op.name = "set_channel"
    /\ op.raised = "SerialException"
    /\ op.submits = 1
    /\ dynamic_submit
    /\ channels # last_submitted_channels

\* C8: set_channel and get_channel with a channel number outside 1..dmx_size
\* (and a byte value) raise an out-of-range error and run no submit.
C8_OutOfRangeRejected ==
    (/\ op.name \in {"set_channel", "get_channel"}
     /\ ~(op.args.channel \in 1..dmx_size)
     /\ (op.name = "set_channel" => IsByte(op.args.value)))
        => (op.raised = "IndexError" /\ op.submits = 0)

\* The ranges set_dmx_parameters documents.
ParamsValid(p) ==
    /\ p.output_break_time \in 9..127
    /\ p.mab_time \in 1..127
    /\ p.output_rate \in 0..40
    /\ Len(p.user_defined_bytes) <= 512

\* C9: set_dmx_parameters reaches the transport if and only if every field is
\* in range; otherwise it raises a validation error and writes nothing.
C9_WritesIffValid ==
    op.name = "set_dmx_parameters"
        => /\ (op.writes = 1 <=> ParamsValid(op.args))
           /\ (ParamsValid(op.args) /\ op.raised = "none"
                 => Len(op.written) = 1)
           /\ (~ParamsValid(op.args)
                 => op.raised = "ValueError" /\ op.written = <<>>
                    /\ op.writes = 0)

\* C9 witness: break time 8 with every other field in range is refused and
\* nothing is written.
C9_Witness ==
    /\ op.name = "set_dmx_parameters"
    /\ op.args.output_break_time = 8
    /\ op.args.mab_time = 127
    /\ op.args.output_rate = 0
    /\ Len(op.args.user_defined_bytes) = 512
    /\ op.raised = "ValueError"
    /\ op.written = <<>>

\* C10: the message of set_dmx_parameters is 0x7E, 4, the little-endian
\* length of user_defined_bytes itself, break time, MAB time, output rate,
\* user_defined_bytes, 0xE7.
C10_ParamsMessage ==
    (op.name = "set_dmx_parameters" /\ op.written # <<>>)
        => op.written[1] =
             <<126, 4, Len(op.args.user_defined_bytes) % 256,
               Len(op.args.user_defined_bytes) \div 256,
               op.args.output_break_time, op.args.mab_time,
               op.args.output_rate>>
             \o op.args.user_defined_bytes \o <<231>>

----------------------------------------------------------------------------
\* C11: a mutator whose mutation went through runs submit() exactly once when
\* submit_after is True, or is not given while auto_submit is set, and not at
\* all otherwise (submit_after=False wins over auto_submit); the submit sees
\* the buffer after the mutation.
C11_AutoSubmitPolicy ==
    (op.name \in Mutators /\ op.raised \in {"none", "SerialException"})
        => /\ op.submits \in {0, 1}
           /\ (op.submits = 1 <=>
                 \/ op.args.submit_after = "True"
                 \/ (op.args.submit_after = "None" /\ auto_submit))
           /\ (op.args.submit_after = "False" => op.submits = 0 /\ op.writes = 0)
           /\ (op.written # <<>> => ChannelBytes(op.written[1]) = channels)

\* C11 witness: auto_submit is set and set_channel(..., submit_after=False)
\* changed a slot without any submit.
C11_Witness ==
    /\ op.name = "set_channel"
    /\ auto_submit
    /\ op.args.submit_after = "False"
    /\ op.raised = "none"
    /\ op.submits = 0
    /\ channels # last_submitted_channels

\* C12: with dynamic_submit off, every submit() hands the transport one
\* send-DMX message with length field N+1 and body 0 followed by all N slots
\* of channels, also when channels equals the snapshot.
C12_FullBufferWhenStatic ==
    (~dynamic_submit /\ op.submits = 1)
        => /\ op.writes = 1
           /\ (op.raised = "none"
                 => op.written =
                      << <<126, 6, (dmx_size + 1) % 256,
                           (dmx_size + 1) \div 256, 0>>
                         \o channels \o <<231>> >>)

\* C12 witness: a second submit() in a row, buffers equal, still writes the
\* whole lit universe.
C12_Witness ==
    /\ ~dynamic_submit
    /\ op.name = "submit"
    /\ op.raised = "none"
    /\ Len(op.written) = 1
    /\ channels[dmx_size] = 255
    /\ device = channels
    /\ LengthField(op.written[1]) = dmx_size + 1

----------------------------------------------------------------------------
\* C13: Controller(dmx_size=N) succeeds for every N in 24..512, recording N
\* and two all-zero buffers of N slots; for any other N it raises the size
\* error before the connection is opened.
C13_ConstructionBySize ==
    op.name = "__init__" /\ op.args # <<>>
        => IF op.args.dmx_size \in 24..512
           THEN /\ op.raised = "none"
                /\ dmx_size = op.args.dmx_size
                /\ Len(channels) = op.args.dmx_size
                /\ Len(last_submitted_channels) = op.args.dmx_size
                /\ \A k \in 1..op.args.dmx_size :
                      channels[k] = 0 /\ last_submitted_channels[k] = 0
                /\ conn = "open"
           ELSE /\ op.raised = "ValueError"
                /\ conn = "unopened"
                /\ channels = <<>>

\* C13 witness: size 513 is refused and no connection was opened.
C13_Witness ==
    /\ op.name = "__init__"
    /\ op.args # <<>>
    /\ op.args.dmx_size = 513
    /\ op.raised = "ValueError"
    /\ conn = "unopened"

----------------------------------------------------------------------------
\* C17: set_port_widget_parameters with parameters in range and port 1 or 2
\* writes 0x7E, the label (4 for port 1, 156 for port 2), the little-endian
\* length of user_defined_bytes plus 5, then the little-endian length of
\* user_defined_bytes alone, break time, MAB time, rate, user_defined_bytes,
\* 0xE7; any other port is refused and nothing is written.
C17_Mk2ParamsMessage ==
    (op.name = "set_port_widget_parameters" /\ op.raised # "SerialException")
        => IF op.args.port \in {1, 2} /\ ParamsValid(op.args.params)
           THEN LET p == op.args.params
                    n == Len(p.user_defined_bytes)
                IN  /\ op.raised = "none"
                    /\ op.written =
                         << <<126, IF op.args.port = 1 THEN 4 ELSE 156,
                              (n + 5) % 256, (n + 5) \div 256,
                              n % 256, n \div 256,
                              p.output_break_time, p.mab_time, p.output_rate>>
                            \o p.user_defined_bytes \o <<231>> >>
                    /\ LengthField(op.written[1]) = Len(op.written[1]) - 5
           ELSE op.raised # "none" /\ op.written = <<>>

----------------------------------------------------------------------------
\* C14: set_channel(i, v) with i in 1..N and v a byte stores v in slot i and
\* leaves every other slot; a get_channel(i) that follows returns v.
C14_SetThenGet ==
    [][/\ (/\ op'.name = "set_channel"
           /\ op'.args.channel \in 1..dmx_size
           /\ op'.args.value \in 0..255)
          => /\ channels'[op'.args.channel] = op'.args.value
             /\ \A j \in 1..dmx_size :
                   j # op'.args.channel => channels'[j] = channels[j]
       /\ (/\ op.name = "set_channel"
           /\ op.args.channel \in 1..dmx_size
           /\ op.args.value \in 0..255
           /\ op'.name = "get_channel"
           /\ op'.args.channel = op.args.channel)
          => op'.ret = <<op.args.value>> /\ op'.raised = "none"]_vars

\* C14 witness: get_channel(25) returns the 255 that set_channel(25, 255)
\* stored just before.
C14_Witness ==
    /\ op.name = "get_channel"
    /\ op.args.channel = PROMOTE + 1
    /\ op.ret = <<255>>
    /\ channels[PROMOTE + 1] = 255
    /\ channels[1] = 0
    /\ channels[dmx_size] = 0

\* C15: after set_all_channels(v) every slot reads v, after clear_channels()
\* every slot reads 0, after all_channels_on() every slot reads 255, and the
\* buffer always has N slots.
C15_FillAll ==
    /\ Len(channels) = dmx_size
    /\ (op.name = "set_all_channels" /\ op.args.value \in 0..255)
         => \A k \in 1..dmx_size : channels[k] = op.args.value
    /\ op.name = "clear_channels" => \A k \in 1..dmx_size : channels[k] = 0
    /\ op.name = "all_channels_on" => \A k \in 1..dmx_size : channels[k] = 255

\* C15 witness: set_all_channels(255) on a universe of more than 24 slots.
C15_Witness ==
    /\ op.name = "set_all_channels"
    /\ op.args.value = 255
    /\ dmx_size > PROMOTE
    /\ \A k \in 1..dmx_size : channels[k] = 255

\* C16: set_dmx_parameters, accepted or refused, leaves channels and the
\* snapshot as they were and writes no send-DMX message.
C16_ParamsLeaveChannels ==
    [][op'.name = "set_dmx_parameters"
       => /\ channels' = channels
          /\ last_submitted_channels' = last_submitted_channels
          /\ device' = device
          /\ \A i \in 1..Len(op'.written) :
                op'.written[i][2] # LABEL_SEND_DMX]_vars

\* C16 witness: an accepted set_dmx_parameters while channels holds changes
\* not yet submitted.
C16_Witness ==
    /\ op.name = "set_dmx_parameters"
    /\ op.raised = "none"
    /\ op.written # <<>>
    /\ channels # last_submitted_channels
    /\ last_submitted_channels # Zeros(dmx_size)

\* C18: the snapshot changes only in a call whose submit() wrote a message: a
\* mutator that runs no submit, get_channel and a skipped submit() leave it as
\* it was and write nothing.
C18_SnapshotOnlyOnWrittenSubmit ==
    [][/\ (last_submitted_channels' # last_submitted_channels
             => op'.submits = 1 /\ op'.written # <<>>)
       /\ (\/ (op'.name \in Mutators /\ op'.submits = 0)
           \/ op'.name = "get_channel"
           \/ (op'.submits = 1 /\ op'.writes = 0))
          => /\ last_submitted_channels' = last_submitted_channels
             /\ op'.written = <<>>]_vars

\* C18 witness: the first call after construction is a set_channel without
\* submit; the snapshot is still all zero.
C18_Witness ==
    /\ op.name = "set_channel"
    /\ op.submits = 0
    /\ op.raised = "none"
    /\ channels # Zeros(dmx_size)
    /\ last_submitted_channels = Zeros(dmx_size)

C20_AutoSubmitKeepsInSync ==
    last_submitted_channels = channels

\* C20 witness: an auto-submitted set_channel in dynamic mode wrote a message
\* and the snapshot caught up with a lit universe.
C20_Witness ==
    /\ op.name = "set_channel"
    /\ op.args.submit_after = "None"
    /\ op.submits = 1
    /\ op.written # <<>>
    /\ dynamic_submit
    /\ dmx_size > PROMOTE
    /\ channels[PROMOTE + 1] = 255
    /\ last_submitted_channels = channels

====
